---- MODULE Spec2Model ----
(***************************************************************************)
(* A model of DataQualityChecker.check() (src/src/dq.py).                  *)
(*                                                                         *)
(* One run of check() on one constructed checker: the loop over the        *)
(* sources (merge the attributes, render the query, open a connection and  *)
(* a cursor, execute, fetch, leave the with-block), the dispatch of the    *)
(* action function, the optional push to the Prometheus gateway and the    *)
(* dispatch of the comparator function.  Every call that can raise has a   *)
(* failing outcome; an exception leaves check() (there is no try/except in *)
(* the file), after the with-block of fetchall has closed what it opened.  *)
(***************************************************************************)
EXTENDS Integers, Sequences, FiniteSets, TLC

\* ------------------------------------------------------------- bounds --
\* The largest number of entries of the `sources` mapping.
MaxSources == 2

\* --------------------------------------------------------- input sets --
\* Python's None, for an unset prometheus_gateway.
None == "<None>"

\* prometheus_gateway: unset, the empty string (falsy as well), an address.
Gateways == {None, "", "pushgateway:9091"}

\* Keys the global attributes may hold, and the keys a source may set too.
AttrKeys == {"a", "b"}
SourceKeys == {"a"}
GlobalVals == {"g"}
SourceVals == {"s", "t"}

\* Names a source may give as its connection; the connections mapping
\* holds only some of them.
ConnNames == {"pg1", "pg2"}
ConnectionMaps == {[c \in {"pg1"} |-> "host=db1"]}

\* What a query may return: a sequence of rows, each a tuple.
RowSets == {<< >>, << <<5>> >>, << <<7>> >>}

\* What the action function may return.
MetricVals == {5, 12}

\* Dictionaries over a subset of the keys.
PartialFns(keys, vals) == UNION {[d -> vals] : d \in SUBSET keys}

\* The pieces of the contents of metric.sql: literal text and named
\* replacement fields.
Lit(s) == [ph |-> FALSE, text |-> s]
Ph(k) == [ph |-> TRUE, text |-> k]
Templates ==
    { << Lit("SELECT count(*) FROM events") >>,
      << Lit("SELECT count(*) FROM "), Ph("a") >>,
      << Lit("SELECT "), Ph("b"), Lit(" FROM "), Ph("a"), Lit(" WHERE "), Ph("b"), Lit(" > 0") >> }

\* ------------------------------------------------------ pure functions --
\* The dict union with the operands' precedence exchanged.
DictUnionLeftWins(left, right) ==
    [k \in (DOMAIN left) \cup (DOMAIN right) |->
        IF k \in DOMAIN left THEN left[k] ELSE right[k]]

\* The dict union left | right: the right operand's value wins.
DictUnion(left, right) ==
    [k \in (DOMAIN left) \cup (DOMAIN right) |->
        IF k \in DOMAIN right THEN right[k] ELSE left[k]]

\* The replacement fields of a template that kwargs does not provide:
\* str.format raises KeyError when there is one.
MissingKeys(t, kwargs) ==
    {t[j].text : j \in {i \in 1..Len(t) : t[i].ph}} \ DOMAIN kwargs

\* A rendering that leaves a blank where a field is.
FormatBlank(t, kwargs) ==
    [j \in 1..Len(t) |-> IF t[j].ph THEN "" ELSE t[j].text]

\* str.format(**kwargs) on a template every field of which is provided:
\* each field is replaced by str() of its value, the text is kept.
Format(t, kwargs) ==
    [j \in 1..Len(t) |-> IF t[j].ph THEN kwargs[t[j].text] ELSE t[j].text]

\* A push that no longer depends on the gateway.
TruthyAlways(g) == TRUE

\* `if self.prometheus_gateway:`: None and "" are falsy.
Truthy(g) == g # None /\ g # ""

\* values_to_compare.append(rows), and the same with the rows put first.
CollectFirst(values, r) == <<r>> \o values
Collect(values, r) == Append(values, r)

\* The parameters of one source: a connection name and its own attributes.
SourceParams ==
    { DictUnion(f, [k \in {"connection"} |-> c]) :
        f \in PartialFns(SourceKeys, SourceVals), c \in ConnNames }

\* The `sources` mapping in insertion order (a dict iterates in it).
SourceMaps == UNION {[1..n -> SourceParams] : n \in 0..MaxSources}

\* ------------------------------------------------------------- state --
VARIABLES
    sources,            \* self.sources, in insertion order
    attributes,         \* self.attributes
    connections,        \* self.connections
    prometheus_gateway, \* self.prometheus_gateway
    template,           \* the contents of metric.sql
    pc,                 \* where check() is
    done_sources,       \* how many sources the loop has finished
    attrs,              \* check()'s local attrs
    query,              \* check()'s local query
    rows,               \* fetchall()'s local records
    values_to_compare,  \* check()'s local values_to_compare
    metric_value,       \* check()'s local metric_value (0 while unbound)
    comparison_result,  \* check()'s local comparison_result
    conns,              \* every connection psycopg2.connect returned
    cursor_open,        \* whether the with-block's cursor is open
    executed,           \* the queries sent to the database
    db_returned,        \* the row-sets the database returned
    action_calls,       \* the arguments of every call of action.run
    push_attempts,      \* the number of calls of push_to_gateway
    pushes,             \* the values of the calls of push_to_gateway that returned
    comparator_calls,   \* the keyword arguments of every comparator.run
    events,             \* the external calls, in order
    err                 \* the exception raised, "none" if none

config == <<sources, attributes, connections, prometheus_gateway, template>>
locals == <<done_sources, attrs, query, rows, values_to_compare, metric_value,
            comparison_result>>
db == <<conns, cursor_open, executed, db_returned>>
plugins == <<action_calls, push_attempts, pushes, comparator_calls>>
vars == <<config, pc, locals, db, plugins, events, err>>

\* The index of the source the loop body is working on.
source == done_sources + 1

Init ==
    /\ sources \in SourceMaps
    /\ attributes \in PartialFns(AttrKeys, GlobalVals)
    /\ connections \in ConnectionMaps
    /\ prometheus_gateway \in Gateways
    /\ template \in Templates
    /\ pc = "loop"
    /\ done_sources = 0
    /\ attrs = << >>
    /\ query = << >>
    /\ rows = << >>
    /\ values_to_compare = << >>
    /\ metric_value = 0
    /\ comparison_result = "unbound"
    /\ conns = << >>
    /\ cursor_open = FALSE
    /\ executed = << >>
    /\ db_returned = << >>
    /\ action_calls = << >>
    /\ push_attempts = 0
    /\ pushes = << >>
    /\ comparator_calls = << >>
    /\ events = << >>
    /\ err = "none"

\* The keyword arguments built from the loop's last merged attributes.
ComparisonKwargsMerged(attributes_, metric) ==
    DictUnion(DictUnion(attributes_, attrs), [k \in {"metric"} |-> metric])

\* Line 114: self.attributes | {"metric": metric_value}.
ComparisonKwargs(attributes_, metric) ==
    DictUnion(attributes_, [k \in {"metric"} |-> metric])

\* An exception that leaves check().
Raise(e) ==
    /\ err' = e
    /\ pc' = "aborted"

\* A with-block that closes nothing.
CloseLastLeak(cs) == cs

\* The last connection opened, closed.
CloseLast(cs) ==
    IF cs = << >> THEN cs
    ELSE [cs EXCEPT ![Len(cs)] = [@ EXCEPT !.open = FALSE]]

\* Lines 88-96: the next source's attributes and its query.
RenderQuery ==
    /\ pc = "loop"
    /\ done_sources < Len(sources)
    /\ attrs' = DictUnion(attributes, sources[source])
    /\ \E read_ok \in BOOLEAN :
        IF ~read_ok
        THEN /\ Raise("FileNotFoundError")
             /\ UNCHANGED query
        ELSE IF MissingKeys(template, attrs') # {}
        THEN /\ Raise("TemplateKeyError")
             /\ UNCHANGED query
        ELSE /\ query' = Format(template, attrs')
             /\ pc' = "connect"
             /\ UNCHANGED err
    /\ UNCHANGED <<config, done_sources, rows, values_to_compare, metric_value,
                   comparison_result, db, plugins, events>>

\* Lines 98 and 60: the connection parameters are looked up, then
\* psycopg2.connect is called.
Connect ==
    /\ pc = "connect"
    /\ IF sources[source]["connection"] \notin DOMAIN connections
       THEN /\ Raise("ConnectionKeyError")
            /\ UNCHANGED <<conns, events>>
       ELSE \E ok \in BOOLEAN :
            /\ events' = Append(events, "connect")
            /\ IF ok
               THEN /\ conns' = Append(conns, [src |-> source, open |-> TRUE, queries |-> 0])
                    /\ pc' = "cursor"
                    /\ UNCHANGED err
               ELSE /\ Raise("ConnectError")
                    /\ UNCHANGED conns
    /\ UNCHANGED <<config, locals, cursor_open, executed, db_returned, plugins>>

\* An exception inside the with-block: it unwinds through closing().
RaiseInWith(e) ==
    /\ err' = e
    /\ pc' = "unwind"

\* Line 60: pg_conn.cursor().
OpenCursor ==
    /\ pc = "cursor"
    /\ \E ok \in BOOLEAN :
        IF ok
        THEN /\ cursor_open' = TRUE
             /\ pc' = "execute"
             /\ UNCHANGED err
        ELSE /\ RaiseInWith("CursorError")
             /\ UNCHANGED cursor_open
    /\ UNCHANGED <<config, locals, conns, executed, db_returned, plugins, events>>

\* Line 61: pg_cursor.execute(query).
Execute ==
    /\ pc = "execute"
    /\ executed' = Append(executed, [src |-> source, query |-> query])
    /\ conns' = [conns EXCEPT ![Len(conns)] = [@ EXCEPT !.queries = @ + 1]]
    /\ events' = Append(events, "query")
    /\ \E ok \in BOOLEAN :
        IF ok
        THEN /\ pc' = "fetch"
             /\ UNCHANGED err
        ELSE RaiseInWith("ExecuteError")
    /\ UNCHANGED <<config, locals, cursor_open, db_returned, plugins>>

\* Line 62: pg_cursor.fetchall().
Fetch ==
    /\ pc = "fetch"
    /\ \E ok \in BOOLEAN :
        IF ok
        THEN \E r \in RowSets :
             /\ rows' = r
             /\ db_returned' = Append(db_returned, [src |-> source, rows |-> r])
             /\ pc' = "exit_with"
             /\ UNCHANGED err
        ELSE /\ RaiseInWith("FetchError")
             /\ UNCHANGED <<rows, db_returned>>
    /\ UNCHANGED <<config, done_sources, attrs, query, values_to_compare, metric_value,
                   comparison_result, conns, cursor_open, executed, plugins, events>>

\* Lines 63 and 101: `return records` leaves the with-block, which closes
\* the cursor and the connection; check() appends the rows.
ExitWith ==
    /\ pc = "exit_with"
    /\ cursor_open' = FALSE
    /\ conns' = CloseLast(conns)
    /\ values_to_compare' = Collect(values_to_compare, rows)
    /\ done_sources' = done_sources + 1
    /\ pc' = "loop"
    /\ UNCHANGED <<config, attrs, query, rows, metric_value, comparison_result,
                   executed, db_returned, plugins, events, err>>

\* An exception in the with-block that is caught, the loop going on.
UnwindSwallow ==
    /\ pc = "unwind"
    /\ cursor_open' = FALSE
    /\ conns' = CloseLast(conns)
    /\ done_sources' = done_sources + 1
    /\ pc' = "loop"
    /\ UNCHANGED <<config, attrs, query, rows, values_to_compare, metric_value,
                   comparison_result, executed, db_returned, plugins, events, err>>

\* Line 60: closing() closes the cursor (if it was opened) and the
\* connection while the exception propagates out of fetchall and check().
Unwind ==
    /\ pc = "unwind"
    /\ cursor_open' = FALSE
    /\ conns' = CloseLast(conns)
    /\ pc' = "aborted"
    /\ UNCHANGED <<config, locals, executed, db_returned, plugins, events, err>>

\* An action whose failure is caught, the run going on to the push.
DispatchActionSwallow ==
    /\ pc = "loop"
    /\ done_sources = Len(sources)
    /\ action_calls' = Append(action_calls, values_to_compare)
    /\ events' = Append(events, "action")
    /\ \E outcome \in {"run_error", "ok"} :
        /\ err' = IF outcome = "run_error" THEN "ActionError" ELSE err
        /\ \E v \in MetricVals : metric_value' = v
        /\ pc' = "gate"
    /\ UNCHANGED <<config, done_sources, attrs, query, rows, values_to_compare,
                   comparison_result, db, push_attempts, pushes, comparator_calls>>

\* Lines 103-108: after the loop, the action module is imported and its
\* run() is called with values_to_compare.
DispatchAction ==
    /\ pc = "loop"
    /\ done_sources = Len(sources)
    /\ \E outcome \in {"import_error", "run_error", "ok"} :
        IF outcome = "import_error"
        THEN /\ Raise("ActionImportError")
             /\ UNCHANGED <<action_calls, metric_value, events>>
        ELSE /\ action_calls' = Append(action_calls, values_to_compare)
             /\ events' = Append(events, "action")
             /\ IF outcome = "run_error"
                THEN /\ Raise("ActionError")
                     /\ UNCHANGED metric_value
                ELSE /\ \E v \in MetricVals : metric_value' = v
                     /\ pc' = "gate"
                     /\ UNCHANGED err
    /\ UNCHANGED <<config, done_sources, attrs, query, rows, values_to_compare,
                   comparison_result, db, push_attempts, pushes, comparator_calls>>

\* A push whose failure is caught and logged, the run going on.
PushMetricSwallow ==
    /\ pc = "gate"
    /\ Truthy(prometheus_gateway)
    /\ push_attempts' = push_attempts + 1
    /\ pc' = "compare"
    /\ \E ok \in BOOLEAN :
        IF ok
        THEN /\ pushes' = Append(pushes, metric_value)
             /\ events' = Append(events, "push")
             /\ UNCHANGED err
        ELSE /\ err' = "PushError"
             /\ UNCHANGED <<pushes, events>>
    /\ UNCHANGED <<config, locals, db, action_calls, comparator_calls>>

\* A push that is tried again when it fails.
PushMetricRetry ==
    /\ pc = "gate"
    /\ Truthy(prometheus_gateway)
    /\ push_attempts' = push_attempts + 1
    /\ UNCHANGED err
    /\ \E ok \in BOOLEAN :
        IF ok
        THEN /\ pushes' = Append(pushes, metric_value)
             /\ events' = Append(events, "push")
             /\ pc' = "compare"
        ELSE UNCHANGED <<pushes, events, pc>>
    /\ UNCHANGED <<config, locals, db, action_calls, comparator_calls>>

\* Lines 111-112 and 65-79: with a gateway, the metric value is pushed.
PushMetric ==
    /\ pc = "gate"
    /\ Truthy(prometheus_gateway)
    /\ push_attempts' = push_attempts + 1
    /\ \E ok \in BOOLEAN :
        IF ok
        THEN /\ pushes' = Append(pushes, metric_value)
             /\ events' = Append(events, "push")
             /\ pc' = "compare"
             /\ UNCHANGED err
        ELSE /\ Raise("PushError")
             /\ UNCHANGED <<pushes, events>>
    /\ UNCHANGED <<config, locals, db, action_calls, comparator_calls>>

\* Line 111: without a gateway, nothing is sent.
SkipPush ==
    /\ pc = "gate"
    /\ ~Truthy(prometheus_gateway)
    /\ pc' = "compare"
    /\ UNCHANGED <<config, locals, db, plugins, events, err>>

\* Lines 114-122: the comparator module is imported and its run() is
\* called with the keyword arguments.
DispatchComparator ==
    /\ pc = "compare"
    /\ \E outcome \in {"import_error", "run_error", "True", "False"} :
        IF outcome = "import_error"
        THEN /\ Raise("ComparatorImportError")
             /\ UNCHANGED <<comparator_calls, comparison_result, events>>
        ELSE /\ comparator_calls' =
                    Append(comparator_calls, ComparisonKwargs(attributes, metric_value))
             /\ events' = Append(events, "compare")
             /\ IF outcome = "run_error"
                THEN /\ Raise("ComparatorError")
                     /\ UNCHANGED comparison_result
                ELSE /\ comparison_result' = outcome
                     /\ pc' = "done"
                     /\ UNCHANGED err
    /\ UNCHANGED <<config, done_sources, attrs, query, rows, values_to_compare,
                   metric_value, db, action_calls, push_attempts, pushes>>

Next ==
    \/ RenderQuery
    \/ Connect
    \/ OpenCursor
    \/ Execute
    \/ Fetch
    \/ ExitWith
    \/ Unwind
    \/ DispatchAction
    \/ PushMetric
    \/ SkipPush
    \/ DispatchComparator

Spec == Init /\ [][Next]_vars

\* ------------------------------------------------------------ claims --
\* The states inside the loop body, after the merge of line 90.
InBody == pc \in {"connect", "cursor", "execute", "fetch", "exit_with", "unwind"}

Finished == pc \in {"done", "aborted"}

\* Whether the source or the global attributes provide key k, and the
\* value they provide: the source's own when it has one.
Provided(i, k) == k \in (DOMAIN sources[i]) \cup (DOMAIN attributes)
ExpectedVal(i, k) == IF k \in DOMAIN sources[i] THEN sources[i][k] ELSE attributes[k]

DbErrors == {"ConnectionKeyError", "ConnectError", "CursorError", "ExecuteError", "FetchError"}
ComparatorErrors == {"ComparatorImportError", "ComparatorError"}
BeforePushErrors ==
    DbErrors \cup {"FileNotFoundError", "TemplateKeyError", "ActionImportError", "ActionError"}

Count(seq, x) == Cardinality({j \in 1..Len(seq) : seq[j] = x})
IsPrefix(s, t) == Len(s) <= Len(t) /\ \A j \in 1..Len(s) : s[j] = t[j]
OpenConns == {j \in 1..Len(conns) : conns[j].open}

\* C1: the action function is called with exactly one row-set per source,
\* the i-th being what the database returned for the i-th source's query,
\* and it is called once every source has been queried and it resolved.
C1_ActionGetsRowSetsInOrder ==
    /\ \A c \in 1..Len(action_calls) :
        /\ Len(action_calls[c]) = Len(sources)
        /\ \A i \in 1..Len(sources) :
            /\ Cardinality({j \in 1..Len(db_returned) : db_returned[j].src = i}) = 1
            /\ \E j \in 1..Len(db_returned) :
                /\ db_returned[j].src = i
                /\ db_returned[j].rows = action_calls[c][i]
    /\ pc \in {"gate", "compare", "done"} => Len(action_calls) = 1

C1_Witness ==
    /\ Len(action_calls) = 1
    /\ Len(sources) = 2
    /\ action_calls[1][1] = << <<5>> >>
    /\ action_calls[1][2] = << <<7>> >>

\* C2: inside the loop body attrs holds, for the source at hand, exactly
\* the keys of the global attributes and of the source's parameters, with
\* the source's value where it has one and the global value elsewhere;
\* the global attributes themselves are what they were.
C2_MergeSourceWins ==
    InBody =>
        /\ DOMAIN attrs = (DOMAIN attributes) \cup (DOMAIN sources[source])
        /\ \A k \in DOMAIN attrs :
            /\ k \in DOMAIN sources[source] => attrs[k] = sources[source][k]
            /\ k \notin DOMAIN sources[source] => attrs[k] = attributes[k]
        /\ \A k \in DOMAIN attributes : attributes[k] \in GlobalVals

C2_Witness ==
    /\ pc = "connect"
    /\ source = 2
    /\ "a" \in DOMAIN attributes
    /\ "a" \in DOMAIN sources[1]
    /\ "a" \in DOMAIN sources[2]
    /\ sources[1]["a"] # sources[2]["a"]
    /\ attrs["a"] = sources[2]["a"]
    /\ "b" \in DOMAIN attrs

\* C3: with the gateway unset (None), push_to_gateway is never called.
C3_NoPushWithoutGateway ==
    prometheus_gateway = None =>
        /\ push_attempts = 0
        /\ pushes = << >>
        /\ Count(events, "push") = 0

C3_Witness ==
    /\ prometheus_gateway = None
    /\ pc = "done"
    /\ Len(sources) = 2

\* C4: at most one connection is open, only inside the with-block of the
\* source it was opened for; every connection of a finished source ran
\* one query and is closed; no source gets two connections, no connection
\* two queries; nothing is open when check() has returned or aborted.
C4_ConnectionScoped ==
    /\ Cardinality(OpenConns) <= 1
    /\ OpenConns # {} =>
        /\ pc \in {"cursor", "execute", "fetch", "exit_with", "unwind"}
        /\ OpenConns = {Len(conns)}
        /\ conns[Len(conns)].src = source
    /\ cursor_open => OpenConns # {}
    /\ \A j \in 1..Len(conns) :
        /\ conns[j].queries <= 1
        /\ conns[j].src = j
        /\ conns[j].src <= done_sources => conns[j].queries = 1 /\ ~conns[j].open
    /\ Finished => OpenConns = {} /\ ~cursor_open

C4_Witness ==
    /\ pc = "aborted"
    /\ err = "FetchError"
    /\ Len(conns) = 2
    /\ conns[2].queries = 1
    /\ ~conns[2].open

\* C5: once a connection or a query has failed, the run is over: nothing
\* is queried for a later source or a second time, and the action, the
\* push and the comparator are not called.
C5_DbFailureAborts ==
    err \in DbErrors =>
        /\ pc \in {"unwind", "aborted"}
        /\ action_calls = << >>
        /\ push_attempts = 0
        /\ comparator_calls = << >>
        /\ \A j \in 1..Len(executed) : executed[j].src = j /\ j <= source
        /\ Count(events, "connect") <= source
        /\ Len(conns) <= source
        /\ Len(values_to_compare) = done_sources

C5_Witness ==
    /\ pc = "aborted"
    /\ err = "ExecuteError"
    /\ Len(sources) = 2
    /\ source = 1

\* C6 as stated: every key a source sets reaches the comparator with a
\* value some source gives it.
C6_ComparatorGetsMergedAttributes ==
    \A c \in 1..Len(comparator_calls) :
        \A i \in 1..Len(sources) :
            \A k \in (DOMAIN sources[i]) \ {"connection"} :
                /\ k \in DOMAIN comparator_calls[c]
                /\ \E j \in 1..Len(sources) :
                    /\ k \in DOMAIN sources[j]
                    /\ comparator_calls[c][k] = sources[j][k]

\* C6, amended: the comparator is called with the global attributes and
\* the metric value under "metric", and with nothing of any source.
C6_ComparatorGetsGlobalAttributes ==
    \A c \in 1..Len(comparator_calls) :
        /\ DOMAIN comparator_calls[c] = (DOMAIN attributes) \cup {"metric"}
        /\ comparator_calls[c]["metric"] = metric_value
        /\ \A k \in (DOMAIN attributes) \ {"metric"} :
            comparator_calls[c][k] = attributes[k]

C6_Witness ==
    /\ Len(comparator_calls) = 1
    /\ Len(sources) = 2
    /\ "a" \in DOMAIN attributes
    /\ "a" \in DOMAIN sources[1]
    /\ "a" \notin DOMAIN sources[2]
    /\ comparator_calls[1]["a"] = attributes["a"]

\* C7 as stated: a run that aborts has pushed nothing.
C7_AbortMeansNoPush == pc = "aborted" => pushes = << >>

\* C7, amended: a run that aborts before the push step (file, templating,
\* database, action) has not called push_to_gateway; a value is pushed
\* only once the action has returned it.
C7_AbortBeforePushMeansNoPush ==
    /\ err \in BeforePushErrors => push_attempts = 0 /\ pushes = << >>
    /\ push_attempts > 0 => Len(action_calls) = 1 /\ pc \in {"compare", "done", "aborted"}
    /\ pushes # << >> => pc \in {"compare", "done"} \/ err \in ComparatorErrors

C7_Witness ==
    /\ pc = "aborted"
    /\ err = "ActionError"
    /\ Truthy(prometheus_gateway)
    /\ Len(sources) = 2

\* C8: every query sent is the template with each field replaced by the
\* value the source (or else the global attributes) gives it, the text
\* kept; a source for which a field is missing raises the templating error
\* with nothing sent for it and nothing run after it; and the templating
\* error is raised for no other source.
C8_Templating ==
    /\ \A e \in 1..Len(executed) :
        /\ Len(executed[e].query) = Len(template)
        /\ \A j \in 1..Len(template) :
            IF template[j].ph
            THEN /\ Provided(executed[e].src, template[j].text)
                 /\ executed[e].query[j] = ExpectedVal(executed[e].src, template[j].text)
            ELSE executed[e].query[j] = template[j].text
    /\ InBody =>
        /\ Len(query) = Len(template)
        /\ \A j \in 1..Len(template) :
            IF template[j].ph
            THEN /\ Provided(source, template[j].text)
                 /\ query[j] = ExpectedVal(source, template[j].text)
            ELSE query[j] = template[j].text
    /\ err = "TemplateKeyError" =>
        /\ pc = "aborted"
        /\ \E j \in 1..Len(template) : template[j].ph /\ ~Provided(source, template[j].text)
        /\ \A e \in 1..Len(executed) : executed[e].src < source
        /\ Len(conns) < source
        /\ action_calls = << >>
        /\ push_attempts = 0
        /\ comparator_calls = << >>

C8_Witness ==
    /\ err = "TemplateKeyError"
    /\ Len(executed) = 1
    /\ Len(template) = 2
    /\ executed[1].query[2] = "s"

\* C9: a failed push ends the run: the comparator is not called, there is
\* no comparison result, and push_to_gateway was called once.
C9_PushFailureAborts ==
    err = "PushError" =>
        /\ pc = "aborted"
        /\ Truthy(prometheus_gateway)
        /\ push_attempts = 1
        /\ pushes = << >>
        /\ comparator_calls = << >>
        /\ comparison_result = "unbound"

C9_Witness ==
    /\ err = "PushError"
    /\ pc = "aborted"
    /\ Len(sources) = 2

\* The external calls of a run in which nothing fails.
ExpectedEvents ==
    [j \in 1..(2 * Len(sources)) |-> IF j % 2 = 1 THEN "connect" ELSE "query"]
        \o <<"action">>
        \o (IF Truthy(prometheus_gateway) THEN <<"push">> ELSE << >>)
        \o <<"compare">>

\* C10: the external calls of a run are a prefix of one connection and one
\* query per source in order, the action, the push when a gateway is set,
\* the comparator; the push and the comparator get the action's value; a
\* run that has not failed can take its next step, and it has returned
\* exactly when the whole sequence has happened.
C10_LinearRun ==
    /\ IsPrefix(events, ExpectedEvents)
    /\ \A j \in 1..Len(executed) : executed[j].src = j
    /\ Len(action_calls) <= 1
    /\ push_attempts <= 1
    /\ Len(pushes) <= push_attempts
    /\ \A j \in 1..Len(pushes) : pushes[j] = metric_value
    /\ Len(comparator_calls) <= 1
    /\ \A j \in 1..Len(comparator_calls) : comparator_calls[j]["metric"] = metric_value
    /\ comparator_calls # << >> /\ Truthy(prometheus_gateway) => Len(pushes) = 1
    /\ pc = "done" <=> (events = ExpectedEvents /\ err = "none" /\ comparison_result # "unbound")
    /\ ~Finished => ENABLED Next
    /\ Finished => ~ENABLED Next

C10_Witness ==
    /\ pc = "done"
    /\ Len(sources) = 2
    /\ Truthy(prometheus_gateway)
    /\ events = <<"connect", "query", "connect", "query", "action", "push", "compare">>
====
